---- MODULE Spec2Model ----
(***************************************************************************)
(* Model of cli/installer.rs: `deno install` writes an executable shim     *)
(* (and optionally a tsconfig sidecar) under <root>/bin.                   *)
(*                                                                         *)
(* Representation.  A string is a sequence of lexemes (atoms such as       *)
(* "http", "://", "/", ".", "main"); "/" and "." are always lexemes of     *)
(* their own, so splitting on them is computed, not assumed.  A path       *)
(* segment is a non-empty lexeme sequence without "/", and a filesystem    *)
(* path is the sequence of its segments from the filesystem root.          *)
(* Option<T> is a sequence of length 0 (None) or 1 (Some).                 *)
(***************************************************************************)
EXTENDS Integers, Sequences, FiniteSets, TLC

VARIABLES
  windows,   \* cfg!(windows): the build the process runs
  env,       \* the process environment
  dirs,      \* the directories of the file system
  files,     \* the regular files of the file system and what they hold
  calls,     \* number of install invocations so far
  req,       \* the arguments of the latest install invocation
  res,       \* how the latest install invocation ended
  pre,       \* the file system as the latest install invocation found it
  derived,   \* the latest result of infer_name_from_url, if it was applied
  log,       \* the install invocations so far, oldest first
  proc,      \* the install invocations that run side by side, call by call
  events,    \* their File::create and write_all calls, in the order made
  overlapped \* one of them began while another was under way

vars == <<windows, env, dirs, files, calls, req, res, pre, derived, log,
          proc, events, overlapped>>

\* ------------------------------------------------------------------------
\* Bounds
\* ------------------------------------------------------------------------
MaxCalls == 2

\* ------------------------------------------------------------------------
\* Option and Result
\* ------------------------------------------------------------------------
None == <<>>

Some(x) == <<x>>

Ok(v) == [kind |-> "ok", val |-> v, msg |-> "", io |-> FALSE]

\* an Error built by Error::new(ErrorKind::..., msg)
Err(m) == [kind |-> "err", val |-> <<>>, msg |-> m, io |-> FALSE]

\* an Error produced by a failing std::fs call and passed on by `?`
IoErr(m) == [kind |-> "err", val |-> <<>>, msg |-> m, io |-> TRUE]

\* a failed expect()/unwrap(): the thread panics, install returns nothing
Panic(m) == [kind |-> "panic", val |-> <<>>, msg |-> m, io |-> FALSE]

\* ------------------------------------------------------------------------
\* Strings
\* ------------------------------------------------------------------------
RECURSIVE Flatten(_)
Flatten(ss) == IF ss = <<>> THEN <<>> ELSE Head(ss) \o Flatten(Tail(ss))

\* [T]::join(sep)
RECURSIVE JoinWith(_, _)
JoinWith(ss, sep) ==
  IF ss = <<>> THEN <<>>
  ELSE IF Len(ss) = 1 THEN ss[1]
  ELSE ss[1] \o sep \o JoinWith(Tail(ss), sep)

\* str::split('/'): the pieces between separators, empty pieces included
RECURSIVE SplitOn(_, _)
SplitOn(s, sep) ==
  IF \A i \in 1..Len(s) : s[i] # sep THEN <<s>>
  ELSE LET i == CHOOSE k \in 1..Len(s) :
                   s[k] = sep /\ \A j \in 1..(k - 1) : s[j] # sep
       IN <<SubSeq(s, 1, i - 1)>> \o SplitOn(SubSeq(s, i + 1, Len(s)), sep)

RECURSIVE DropEmpty(_)
DropEmpty(ss) ==
  IF ss = <<>> THEN <<>>
  ELSE IF Head(ss) = <<>> THEN DropEmpty(Tail(ss))
  ELSE <<Head(ss)>> \o DropEmpty(Tail(ss))

\* str::to_lowercase, lexeme by lexeme
LowerLex(x) ==
  CASE x = "HTTP" -> "http"
    [] x = "HTTp" -> "http"
    [] x = "HTTPS" -> "https"
    [] x = "Main" -> "main"
    [] OTHER -> x

to_lowercase(s) == [i \in 1..Len(s) |-> LowerLex(s[i])]

\* lexemes made only of [A-Za-z0-9_-] characters
WordLex == {"main", "Main", "mod", "index", "cli", "abc", "server", "echo_server",
            "echo_test", "cat", "bin", "ts", "t", "1abc", "localhost"}

\* word lexemes whose first character is an ASCII letter
LetterLed == WordLex \ {"1abc"}

\* ------------------------------------------------------------------------
\* std::path
\* ------------------------------------------------------------------------
CurDir == <<".">>

ParentDir == <<".", ".">>

RECURSIVE DropCurDir(_)
DropCurDir(ss) ==
  IF ss = <<>> THEN <<>>
  ELSE IF Head(ss) = CurDir THEN DropCurDir(Tail(ss))
  ELSE <<Head(ss)>> \o DropCurDir(Tail(ss))

\* PathBuf::from(s) seen through Path::components
PathBuf(s) ==
  [abs |-> s # <<>> /\ s[1] = "/",
   comps |-> DropCurDir(DropEmpty(SplitOn(s, "/")))]

\* Path::to_str / to_string_lossy of an absolute path
PathToStr(p) ==
  IF p = <<>> THEN <<"/">>
  ELSE Flatten([i \in 1..Len(p) |-> <<"/">> \o p[i]])

\* Path::file_name
file_name(p) ==
  IF p = <<>> THEN None
  ELSE IF p[Len(p)] = ParentDir THEN None
  ELSE Some(p[Len(p)])

\* Path::parent
parent(p) == IF p = <<>> THEN None ELSE Some(SubSeq(p, 1, Len(p) - 1))

\* the stem of one file name: the part before the last ".", the whole name
\* when it has no "." or only a leading one
StemOf(n) ==
  LET dots == {i \in 1..Len(n) : n[i] = "."}
  IN IF dots = {} THEN n
     ELSE LET last == CHOOSE i \in dots : \A j \in dots : j <= i
          IN IF last = 1 THEN n ELSE SubSeq(n, 1, last - 1)

\* Path::file_stem
file_stem(p) ==
  LET n == file_name(p)
  IN IF n = None THEN None ELSE Some(StemOf(n[1]))

\* Path::with_extension / PathBuf::set_extension
with_extension(p, ext) ==
  IF file_name(p) = None THEN p
  ELSE [p EXCEPT ![Len(p)] = StemOf(p[Len(p)]) \o <<".">> \o ext]

\* get_config_file_path adding the suffix to the whole file name
get_config_file_path_push(file_path) ==
  [file_path EXCEPT ![Len(file_path)] = @ \o <<".", "tsconfig", ".", "json">>]

get_config_file_path(file_path) ==
  with_extension(file_path, <<"tsconfig", ".", "json">>)

\* ------------------------------------------------------------------------
\* url::Url
\* ------------------------------------------------------------------------
StartsWith(s, prefix) ==
  Len(s) >= Len(prefix) /\ SubSeq(s, 1, Len(prefix)) = prefix

is_remote_url(module_url) ==
  LET lower == to_lowercase(module_url)
  IN StartsWith(lower, <<"http", "://">>) \/ StartsWith(lower, <<"https", "://">>)

RECURSIVE DropLeading(_, _)
DropLeading(s, x) ==
  IF s # <<>> /\ Head(s) = x THEN DropLeading(Tail(s), x) ELSE s

\* lexemes a host may not contain
BadHostLex == {" ", "["}

\* removal of "." and ".." from the segments of a URL path
RECURSIVE RemoveDots(_, _)
RemoveDots(segs, acc) ==
  IF segs = <<>> THEN acc
  ELSE LET h == Head(segs)
           t == Tail(segs)
           popped == IF acc = <<>> THEN <<>> ELSE SubSeq(acc, 1, Len(acc) - 1)
       IN IF h = CurDir
          THEN (IF t = <<>> THEN Append(acc, <<>>) ELSE RemoveDots(t, acc))
          ELSE IF h = ParentDir
          THEN (IF t = <<>> THEN Append(popped, <<>>) ELSE RemoveDots(t, popped))
          ELSE RemoveDots(t, Append(acc, h))

\* Url::parse of a string that starts with http:// or https://
Url_parse(s) ==
  LET rest == DropLeading(SubSeq(s, 3, Len(s)), "/")
      cut == IF \E i \in 1..Len(rest) : rest[i] = "/"
             THEN CHOOSE i \in 1..Len(rest) :
                    rest[i] = "/" /\ \A j \in 1..(i - 1) : rest[j] # "/"
             ELSE Len(rest) + 1
      host == SubSeq(rest, 1, cut - 1)
      rawpath == SubSeq(rest, cut, Len(rest))
      segs == IF rawpath = <<>> THEN <<<<>>>>
              ELSE RemoveDots(Tail(SplitOn(rawpath, "/")), <<>>)
  IN IF host = <<>> THEN Err("empty host")
     ELSE IF \E i \in 1..Len(host) : host[i] \in BadHostLex
     THEN Err("invalid domain character")
     ELSE Ok([scheme |-> LowerLex(s[1]),
              host |-> to_lowercase(host),
              path |-> <<"/">> \o JoinWith(segs, <<"/">>)])

\* Url::from_file_path
Url_from_file_path(pb) ==
  IF ~pb.abs THEN Err("not absolute")
  ELSE Ok([scheme |-> "file", host |-> <<>>, path |-> PathToStr(pb.comps)])

\* Url::to_string
Url_to_string(u) == <<u.scheme, "://">> \o u.host \o u.path

\* infer_name_from_url comparing the stem without regard to case
infer_name_from_url_nocase(url) ==
  LET path == PathBuf(url.path).comps
      stem == file_stem(path)
  IN IF stem = None THEN None
     ELSE IF parent(path) # None
             /\ to_lowercase(stem[1]) \in {<<"main">>, <<"mod">>, <<"index">>, <<"cli">>}
             /\ file_name(parent(path)[1]) # None
          THEN Some(file_name(parent(path)[1])[1])
          ELSE Some(stem[1])

infer_name_from_url(url) ==
  LET path == PathBuf(url.path).comps
      stem == file_stem(path)
  IN IF stem = None THEN None
     ELSE IF parent(path) # None
             /\ stem[1] \in {<<"main">>, <<"mod">>, <<"index">>, <<"cli">>}
             /\ file_name(parent(path)[1]) # None
          THEN Some(file_name(parent(path)[1])[1])
          ELSE Some(stem[1])

\* ^[a-z][\w-]*$, case-insensitive
EXEC_NAME_RE_is_match(s) ==
  /\ s # <<>>
  /\ s[1] \in LetterLed
  /\ \A i \in 1..Len(s) : s[i] \in WordLex

validate_name(exec_name) ==
  IF EXEC_NAME_RE_is_match(exec_name) THEN Ok(<<>>)
  ELSE Err("Invalid executable name")

\* ------------------------------------------------------------------------
\* Filesystem and environment
\* ------------------------------------------------------------------------
\* env::current_dir()
CwdPath == <<<<"cwd">>>>

Exists(D, F, p) == p \in D \/ p \in DOMAIN F

\* fs::metadata(p) is Ok
metadata_ok(D, F, p) == Exists(D, F, p)

\* Path::canonicalize
canonicalize(D, F, p) ==
  IF Exists(D, F, p) THEN Ok(p) ELSE IoErr("No such file or directory")

Prefixes(p) == {SubSeq(p, 1, k) : k \in 0..Len(p)}

\* fs::create_dir in place of create_dir_all: the parent has to exist
create_dir(D, F, p) ==
  IF \E q \in Prefixes(p) : q \in DOMAIN F THEN IoErr("Not a directory")
  ELSE IF p # <<>> /\ SubSeq(p, 1, Len(p) - 1) \notin D
  THEN IoErr("No such file or directory")
  ELSE Ok(D \cup {p})

\* fs::create_dir_all: the directories afterwards, or an error
create_dir_all(D, F, p) ==
  IF \E q \in Prefixes(p) : q \in DOMAIN F THEN IoErr("Not a directory")
  ELSE Ok(D \cup Prefixes(p))

\* WriteFile opening the file for append instead of truncating it
WriteFile_append(F, p, bytes, exec) ==
  [q \in DOMAIN F \cup {p} |->
     IF q = p
     THEN [content |-> (IF p \in DOMAIN F THEN F[p].content ELSE <<>>) \o bytes,
           executable |-> exec]
     ELSE F[q]]

\* File::create + write_all: regular file p created or truncated, then written
WriteFile(F, p, bytes, exec) ==
  [q \in DOMAIN F \cup {p} |->
     IF q = p THEN [content |-> bytes, executable |-> exec] ELSE F[q]]

\* get_installer_root without the is_empty test
get_installer_root_noempty(e, win, D, F) ==
  IF e.DENO_INSTALL_ROOT # None
  THEN canonicalize(D, F, PathBuf(e.DENO_INSTALL_ROOT[1]).comps)
  ELSE LET home == IF win THEN e.USERPROFILE ELSE e.HOME
       IN IF home = None
          THEN Err(IF win THEN "$USERPROFILE is not defined"
                   ELSE "$HOME is not defined")
          ELSE Ok(Append(PathBuf(home[1]).comps, <<".", "deno">>))

get_installer_root(e, win, D, F) ==
  IF e.DENO_INSTALL_ROOT # None /\ e.DENO_INSTALL_ROOT[1] # <<>>
  THEN canonicalize(D, F, PathBuf(e.DENO_INSTALL_ROOT[1]).comps)
  ELSE LET home == IF win THEN e.USERPROFILE ELSE e.HOME
       IN IF home = None
          THEN Err(IF win THEN "$USERPROFILE is not defined"
                   ELSE "$HOME is not defined")
          ELSE Ok(Append(PathBuf(home[1]).comps, <<".", "deno">>))

\* ------------------------------------------------------------------------
\* Flags (crate::flags) and log::Level
\* ------------------------------------------------------------------------
Levels == {"Error", "Warn", "Info", "Debug", "Trace"}

\* Flags::to_permission_args
to_permission_args(flags) ==
  (IF flags.allow_read THEN <<<<"--allow-read">>>> ELSE <<>>)
  \o (IF flags.allow_net THEN <<<<"--allow-net">>>> ELSE <<>>)

\* Flags::default()
DefaultFlags ==
  [allow_read |-> FALSE, allow_net |-> FALSE, ca_file |-> None,
   log_level |-> None, no_check |-> FALSE, unstable |-> FALSE,
   config_path |-> None]

\* ------------------------------------------------------------------------
\* The shim
\* ------------------------------------------------------------------------
\* args.iter().map(|c| format!("\"{}\"", c))
Quoted(args) == [i \in 1..Len(args) |-> <<"\"">> \o args[i] \o <<"\"">>]

\* the text written by generate_executable_file
Template(win, args) ==
  IF win
  THEN <<"% generated by deno install %\n", "@deno.exe", " ">>
       \o JoinWith(Quoted(args), <<" ">>) \o <<" ", "%*", "\n">>
  ELSE <<"#!/bin/sh\n", "# generated by deno install\n", "deno", " ">>
       \o JoinWith(Quoted(args), <<" ">>) \o <<" ", "\"$@\"", "\n">>

\* File::create + write_all (+ set_permissions 0o755 off Windows)
generate_executable_file(win, D, F, file_path, args) ==
  IF file_path \in D THEN IoErr("Is a directory")
  ELSE Ok(WriteFile(F, file_path, Template(win, args),
                    IF win THEN (file_path \in DOMAIN F /\ F[file_path].executable)
                    ELSE TRUE))

\* fs::copy of cwd.join(config_file_name) to the sidecar path
generate_config_file(D, F, file_path, config_file_name) ==
  LET config_file_copy_path == get_config_file_path(file_path)
      name == PathBuf(config_file_name)
      config_file_path == IF name.abs THEN name.comps ELSE CwdPath \o name.comps
  IN IF config_file_path \notin DOMAIN F THEN IoErr("No such file or directory")
     ELSE IF config_file_copy_path \in D THEN IoErr("Is a directory")
     ELSE Ok(WriteFile(F, config_file_copy_path, F[config_file_path].content,
                       F[config_file_path].executable))

\* executable_args pushing --unstable before --no-check
executable_args_reordered(flags, file_path, module_url, args) ==
  LET a1 == <<<<"run">>>> \o to_permission_args(flags)
      a2 == IF flags.ca_file # None
            THEN a1 \o <<<<"--cert">>, flags.ca_file[1]>> ELSE a1
      lvl == IF flags.log_level = None THEN "none" ELSE flags.log_level[1]
      a3 == IF lvl = "none" THEN a2
            ELSE IF lvl = "Error" THEN Append(a2, <<"--quiet">>)
            ELSE IF lvl = "Debug" THEN a2 \o <<<<"--log-level">>, <<"debug">>>>
            ELSE IF lvl = "Info" THEN a2 \o <<<<"--log-level">>, <<"info">>>>
            ELSE a2
      a4 == IF flags.unstable THEN Append(a3, <<"--unstable">>) ELSE a3
      a5 == IF flags.no_check THEN Append(a4, <<"--no-check">>) ELSE a4
      a6 == IF flags.config_path # None
            THEN a5 \o <<<<"--config">>, PathToStr(get_config_file_path(file_path))>>
            ELSE a5
  IN IF lvl = "Warn" THEN Err("invalid log level WARN")
     ELSE IF lvl = "Trace" THEN Err("invalid log level TRACE")
     ELSE Ok(a6 \o <<Url_to_string(module_url)>> \o args)

\* executable_args with a match arm for Level::Warn
executable_args_warn(flags, file_path, module_url, args) ==
  LET a1 == <<<<"run">>>> \o to_permission_args(flags)
      a2 == IF flags.ca_file # None
            THEN a1 \o <<<<"--cert">>, flags.ca_file[1]>> ELSE a1
      lvl == IF flags.log_level = None THEN "none" ELSE flags.log_level[1]
      a3 == IF lvl = "none" THEN a2
            ELSE IF lvl = "Error" THEN Append(a2, <<"--quiet">>)
            ELSE IF lvl = "Debug" THEN a2 \o <<<<"--log-level">>, <<"debug">>>>
            ELSE IF lvl = "Info" THEN a2 \o <<<<"--log-level">>, <<"info">>>>
            ELSE IF lvl = "Warn" THEN a2 \o <<<<"--log-level">>, <<"warn">>>>
            ELSE a2
      a4 == IF flags.no_check THEN Append(a3, <<"--no-check">>) ELSE a3
      a5 == IF flags.unstable THEN Append(a4, <<"--unstable">>) ELSE a4
      a6 == IF flags.config_path # None
            THEN a5 \o <<<<"--config">>, PathToStr(get_config_file_path(file_path))>>
            ELSE a5
  IN IF lvl = "Trace" THEN Err("invalid log level TRACE")
     ELSE Ok(a6 \o <<Url_to_string(module_url)>> \o args)

\* install, lines 196-239: the argument vector, or the log level error
executable_args(flags, file_path, module_url, args) ==
  LET a1 == <<<<"run">>>> \o to_permission_args(flags)
      a2 == IF flags.ca_file # None
            THEN a1 \o <<<<"--cert">>, flags.ca_file[1]>> ELSE a1
      lvl == IF flags.log_level = None THEN "none" ELSE flags.log_level[1]
      a3 == IF lvl = "none" THEN a2
            ELSE IF lvl = "Error" THEN Append(a2, <<"--quiet">>)
            ELSE IF lvl = "Debug" THEN a2 \o <<<<"--log-level">>, <<"debug">>>>
            ELSE IF lvl = "Info" THEN a2 \o <<<<"--log-level">>, <<"info">>>>
            ELSE a2
      a4 == IF flags.no_check THEN Append(a3, <<"--no-check">>) ELSE a3
      a5 == IF flags.unstable THEN Append(a4, <<"--unstable">>) ELSE a4
      a6 == IF flags.config_path # None
            THEN a5 \o <<<<"--config">>, PathToStr(get_config_file_path(file_path))>>
            ELSE a5
  IN IF lvl = "Warn" THEN Err("invalid log level WARN")
     ELSE IF lvl = "Trace" THEN Err("invalid log level TRACE")
     ELSE Ok(a6 \o <<Url_to_string(module_url)>> \o args)

\* ------------------------------------------------------------------------
\* install
\* ------------------------------------------------------------------------
\* How an invocation ends: what it returns, the file system it leaves, the
\* statement it returned from, and file_path when line 183 was reached.
Outcome(r, D, F, at, target) ==
  [ret |-> r, dirs |-> D, files |-> F, at |-> at, target |-> target]

\* install, lines 158-170
resolve_module_url(module_url) ==
  IF is_remote_url(module_url)
  THEN LET u == Url_parse(module_url)
       IN IF u.kind = "ok" THEN u ELSE Panic("Should be valid url")
  ELSE LET module_path == PathBuf(module_url)
           abs_path == IF module_path.abs THEN module_path
                       ELSE PathBuf(PathToStr(CwdPath) \o <<"/">> \o module_url)
           u == Url_from_file_path(abs_path)
       IN IF u.kind = "ok" THEN u ELSE Panic("Path should be absolute")

\* install, lines 139-143
resolve_root(e, win, D, F, root) ==
  IF root # None THEN canonicalize(D, F, root[1])
  ELSE get_installer_root(e, win, D, F)

\* install, lines 183-187
shim_path(win, installation_dir, name) ==
  LET file_path == Append(installation_dir, name)
  IN IF win THEN with_extension(file_path, <<"cmd">>) ELSE file_path

\* write_files putting the file system back when the sidecar copy fails
write_files_rollback(win, D, F, file_path, flags, exe_args) ==
  LET w == generate_executable_file(win, D, F, file_path, exe_args)
  IN IF w.kind # "ok" THEN Outcome(w, D, F, "shim", Some(file_path))
     ELSE IF flags.config_path = None
     THEN Outcome(Ok(<<>>), D, w.val, "done", Some(file_path))
     ELSE LET c == generate_config_file(D, w.val, file_path, flags.config_path[1])
          IN IF c.kind # "ok" THEN Outcome(c, D, F, "config", Some(file_path))
             ELSE Outcome(Ok(<<>>), D, c.val, "done", Some(file_path))

\* install, lines 241-259
write_files(win, D, F, file_path, flags, exe_args) ==
  LET w == generate_executable_file(win, D, F, file_path, exe_args)
  IN IF w.kind # "ok" THEN Outcome(w, D, F, "shim", Some(file_path))
     ELSE IF flags.config_path = None
     THEN Outcome(Ok(<<>>), D, w.val, "done", Some(file_path))
     ELSE LET c == generate_config_file(D, w.val, file_path, flags.config_path[1])
          IN IF c.kind # "ok" THEN Outcome(c, D, w.val, "config", Some(file_path))
             ELSE Outcome(Ok(<<>>), D, c.val, "done", Some(file_path))

\* install, lines 183-259
install_named(win, D, F, installation_dir, flags, url, args, name, force) ==
  LET file_path == shim_path(win, installation_dir, name)
      a == executable_args(flags, file_path, url, args)
  IN IF Exists(D, F, file_path) /\ ~force
     THEN Outcome(Err("Existing installation found. Aborting (Use -f to overwrite)."),
                  D, F, "guard", Some(file_path))
     ELSE IF a.kind # "ok" THEN Outcome(a, D, F, "log_level", Some(file_path))
     ELSE write_files(win, D, F, file_path, flags, a.val)

\* install, lines 158-259: installation_dir exists as a directory
install_into(win, D, F, installation_dir, flags, module_url, args, name, force) ==
  LET u == resolve_module_url(module_url)
  IN IF u.kind # "ok" THEN Outcome(u, D, F, "url", None)
     ELSE LET nm == IF name # None THEN name ELSE infer_name_from_url(u.val)
          IN IF nm = None
             THEN Outcome(Err("An executable name was not provided. One could not be inferred from the URL. Aborting."),
                          D, F, "name", None)
             ELSE IF validate_name(nm[1]).kind # "ok"
             THEN Outcome(validate_name(nm[1]), D, F, "validate", None)
             ELSE install_named(win, D, F, installation_dir,
                                flags, u.val, args, nm[1], force)

\* install, lines 146-156: the directories afterwards, or an error
ensure_directory(D, F, installation_dir) ==
  IF metadata_ok(D, F, installation_dir)
  THEN IF installation_dir \notin D
       THEN Err("Installation path is not a directory")
       ELSE Ok(D)
  ELSE create_dir_all(D, F, installation_dir)

install(e, win, D, F, flags, module_url, args, name, root, force) ==
  LET r == resolve_root(e, win, D, F, root)
  IN IF r.kind # "ok" THEN Outcome(r, D, F, "root", None)
     ELSE LET installation_dir == Append(r.val, <<"bin">>)
              m == ensure_directory(D, F, installation_dir)
          IN IF m.kind # "ok" THEN Outcome(m, D, F, "bin_dir", None)
             ELSE install_into(win, m.val, F, installation_dir,
                               flags, module_url, args, name, force)

\* ------------------------------------------------------------------------
\* Initial file system, environment and the inputs of the checked runs
\* ------------------------------------------------------------------------
TmpRoot == <<<<"t">>>>

TmpBin == <<<<"t">>, <<"bin">>>>

MissingRoot == <<<<"nx">>>>

HomeDir == <<<<"h">>>>

ProfileDir == <<<<"u">>>>

CwdConfig == CwdPath \o <<<<"tsconfig", ".", "json">>>>

TmpConfig == TmpRoot \o <<<<"test_tsconfig", ".", "json">>>>

InitDirs == {<<>>, TmpRoot, CwdPath, HomeDir, ProfileDir}

InitFiles ==
  (CwdConfig :> [content |-> <<"{", "}">>, executable |-> FALSE])
  @@ (TmpConfig :> [content |-> <<"{", "strict", "}">>, executable |-> FALSE])

DefaultEnv ==
  [DENO_INSTALL_ROOT |-> None,
   HOME |-> Some(PathToStr(HomeDir)),
   USERPROFILE |-> Some(PathToStr(ProfileDir))]

EnvSet ==
  [DENO_INSTALL_ROOT : {None, Some(<<>>), Some(PathToStr(TmpRoot)),
                        Some(PathToStr(MissingRoot))},
   HOME : {None, Some(PathToStr(HomeDir))},
   USERPROFILE : {None, Some(PathToStr(ProfileDir))}]

EchoUrl ==
  <<"http", "://", "localhost", "/", "abc", "/", "echo_server", ".", "ts">>

CatUrl == <<"HTTP", "://", "localhost", "/", "cat", ".", "ts">>

BadUrl == <<"https", "://", "[">>

LocalModule == <<"echo_server", ".", "ts">>

RelConfig == <<"tsconfig", ".", "json">>

AbsConfig == PathToStr(TmpConfig)

MissingConfig == <<"missing", ".", "json">>

NoRequest ==
  [flags |-> DefaultFlags, module_url |-> <<>>, args |-> <<>>,
   name |-> None, root |-> None, force |-> FALSE]

NoResult ==
  [kind |-> "none", msg |-> "", io |-> FALSE, at |-> "none", target |-> None]

\* the requests of Spec: overwriting, failing and config-copying installs
\* into one root
Requests ==
  [flags : {[DefaultFlags EXCEPT !.config_path = c] :
              c \in {None, Some(RelConfig), Some(MissingConfig)}},
   module_url : {EchoUrl, CatUrl, BadUrl},
   args : {<<>>},
   name : {None, Some(<<"echo_test">>)},
   root : {Some(TmpRoot)},
   force : BOOLEAN]

\* the requests of SpecRoot
RootRequests ==
  [flags : {DefaultFlags},
   module_url : {EchoUrl},
   args : {<<>>},
   name : {Some(<<"echo_test">>), Some(<<"bin">>)},
   root : {None, Some(TmpRoot), Some(TmpBin), Some(MissingRoot)},
   force : BOOLEAN]

AllFlags ==
  [allow_read : BOOLEAN, allow_net : BOOLEAN,
   ca_file : {None, Some(<<"ca", ".", "pem">>)},
   log_level : {None} \cup {Some(l) : l \in Levels},
   no_check : BOOLEAN, unstable : BOOLEAN,
   config_path : {None, Some(RelConfig), Some(AbsConfig)}]

\* the requests of SpecArgs
ArgRequests ==
  [flags : AllFlags,
   module_url : {EchoUrl, LocalModule},
   args : {<<>>, <<<<"--foobar">>>>, <<<<"--port">>, <<"8080">>>>},
   name : {Some(<<"echo_test">>)},
   root : {Some(TmpRoot)},
   force : BOOLEAN]

\* the file system after echo_test was installed into TmpRoot
Installed(win) ==
  install(DefaultEnv, win, InitDirs, InitFiles, DefaultFlags, CatUrl, <<>>,
          Some(<<"echo_test">>), Some(TmpRoot), FALSE)

MaxSegs == 2

FileNames ==
  {<<"main">>, <<"main", ".", "ts">>, <<"Main", ".", "ts">>, <<"mod", ".", "ts">>,
   <<"index", ".", "ts">>, <<"cli", ".", "ts">>, <<"server", ".", "ts">>,
   <<"abc">>, <<"main", ".", "d", ".", "ts">>, <<".", "ts">>, <<>>}

RECURSIVE PathsUpTo(_)
PathsUpTo(n) ==
  IF n = 0 THEN {<<>>}
  ELSE PathsUpTo(n - 1)
       \cup {Append(p, f) : p \in {q \in PathsUpTo(n - 1) : Len(q) = n - 1},
                            f \in FileNames}

\* "http://localhost" followed by "/" and a segment for every segment
InferUrls ==
  {<<"http", "://", "localhost">> \o Flatten([i \in 1..Len(p) |-> <<"/">> \o p[i]]) :
     p \in PathsUpTo(MaxSegs)}

\* the requests of SpecInfer
InferRequests ==
  [flags : {DefaultFlags},
   module_url : InferUrls \cup {LocalModule},
   args : {<<>>},
   name : {None, Some(<<"echo_test">>)},
   root : {Some(TmpRoot)},
   force : {FALSE}]

\* ------------------------------------------------------------------------
\* Actions
\* ------------------------------------------------------------------------
\* one invocation of install
Install(flags, module_url, args, name, root, force) ==
  LET o == install(env, windows, dirs, files,
                   flags, module_url, args, name, root, force)
  IN /\ dirs' = o.dirs
     /\ files' = o.files
     /\ res' = [kind |-> o.ret.kind, msg |-> o.ret.msg, io |-> o.ret.io,
                at |-> o.at, target |-> o.target]
     /\ req' = [flags |-> flags, module_url |-> module_url, args |-> args,
                name |-> name, root |-> root, force |-> force]
     /\ pre' = [dirs |-> dirs, files |-> files]
     /\ calls' = calls + 1
     /\ log' = Append(log, [req |-> req', kind |-> o.ret.kind, at |-> o.at,
                            target |-> o.target])
     /\ UNCHANGED <<windows, env, derived, proc, events, overlapped>>

InstallAny ==
  /\ calls < MaxCalls
  /\ \E r \in Requests :
       Install(r.flags, r.module_url, r.args, r.name, r.root, r.force)

\* the stored request is carried out, once
InvokeRequest ==
  /\ calls = 0
  /\ Install(req.flags, req.module_url, req.args, req.name, req.root, req.force)

\* infer_name_from_url applied to the stored request's URL
InferName ==
  /\ derived = None
  /\ resolve_module_url(req.module_url).kind = "ok"
  /\ derived' = Some(infer_name_from_url(resolve_module_url(req.module_url).val))
  /\ UNCHANGED <<windows, env, dirs, files, calls, req, res, pre, log,
                 proc, events, overlapped>>

InvokeDerived ==
  /\ derived # None
  /\ InvokeRequest

\* the two invocations of the race
Procs == {"a", "b"}

\* an invocation that has not begun
IdleProc ==
  [pc |-> "idle", req |-> NoRequest, dir |-> <<>>, file_path |-> <<>>,
   args |-> <<>>, ret |-> NoResult]

InitWith(e, r, D, F) ==
  /\ windows \in BOOLEAN
  /\ env = e
  /\ dirs = D
  /\ files = F
  /\ calls = 0
  /\ req = r
  /\ res = NoResult
  /\ pre = [dirs |-> D, files |-> F]
  /\ derived = None
  /\ log = <<>>
  /\ proc = [p \in Procs |-> IdleProc]
  /\ events = <<>>
  /\ overlapped = FALSE

\* Spec: sequences of installs into one root
Init == InitWith(DefaultEnv, NoRequest, InitDirs, InitFiles)

Next == InstallAny

Spec == Init /\ [][Next]_vars

\* SpecRoot: every environment, every kind of root
InitRoot == \E e \in EnvSet : InitWith(e, NoRequest, InitDirs, InitFiles)

InstallRoot ==
  /\ calls < MaxCalls
  /\ \E r \in RootRequests :
       Install(r.flags, r.module_url, r.args, r.name, r.root, r.force)

NextRoot == InstallRoot

SpecRoot == InitRoot /\ [][NextRoot]_vars

\* SpecArgs: one install for every combination of options, into a root that
\* is empty or already holds the shim echo_test
InitArgs ==
  \E r \in ArgRequests, w \in BOOLEAN, installed \in BOOLEAN :
    /\ windows = w
    /\ InitWith(DefaultEnv, r,
                IF installed THEN Installed(w).dirs ELSE InitDirs,
                IF installed THEN Installed(w).files ELSE InitFiles)

NextArgs == InvokeRequest

SpecArgs == InitArgs /\ [][NextArgs]_vars

\* SpecInfer: name inference for every URL path, then the install
InitInfer == \E r \in InferRequests : InitWith(DefaultEnv, r, InitDirs, InitFiles)

NextInfer == InferName \/ InvokeDerived

SpecInfer == InitInfer /\ [][NextInfer]_vars

\* ------------------------------------------------------------------------
\* install, one file system call at a time, by invocations side by side
\* ------------------------------------------------------------------------
\* the requests of SpecRace: the same name in the same root, never forced
RaceRequests ==
  [flags : {[DefaultFlags EXCEPT !.config_path = c] : c \in {None, Some(RelConfig)}},
   module_url : {EchoUrl, CatUrl},
   args : {<<>>, <<<<"--foobar">>>>},
   name : {Some(<<"echo_test">>)},
   root : {Some(TmpRoot)},
   force : {FALSE}]

\* existing_installation with the test left out
existing_installation_never(D, F, file_path, force) == FALSE

\* install, line 189: file_path.exists() && !force
existing_installation(D, F, file_path, force) ==
  Exists(D, F, file_path) /\ ~force

\* File::create: the file is created empty or truncated; its mode is kept
file_create(F, p) ==
  WriteFile(F, p, <<>>, p \in DOMAIN F /\ F[p].executable)

\* write_all on a newly opened File: the bytes go to the start of the file,
\* over what it holds there
write_all(F, p, bytes) ==
  [F EXCEPT ![p].content = bytes \o SubSeq(@, Len(bytes) + 1, Len(@))]

\* fs::set_permissions to 0o755
set_permissions(F, p) == [F EXCEPT ![p].executable = TRUE]

Returned(r, at, target) ==
  [kind |-> r.kind, msg |-> r.msg, io |-> r.io, at |-> at, target |-> target]

\* invocation p returns
Finish(p, r, at, target) ==
  proc' = [proc EXCEPT ![p].pc = "done", ![p].ret = Returned(r, at, target)]

Goto(p, pc) == proc' = [proc EXCEPT ![p].pc = pc]

Running(p) == proc[p].pc \notin {"idle", "done"}

RaceFixed == UNCHANGED <<windows, env, calls, req, res, pre, derived, log>>

\* install begins: lines 139-144, root.canonicalize()
P_Canonicalize(p) ==
  /\ proc[p].pc = "idle"
  /\ \E r \in RaceRequests :
       LET root == resolve_root(env, windows, dirs, files, r.root)
       IN IF root.kind # "ok"
          THEN proc' = [proc EXCEPT ![p].pc = "done", ![p].req = r,
                                    ![p].ret = Returned(root, "root", None)]
          ELSE proc' = [proc EXCEPT ![p].pc = "metadata", ![p].req = r,
                                    ![p].dir = Append(root.val, <<"bin">>)]
  /\ overlapped' = (overlapped \/ \E q \in Procs \ {p} : Running(q))
  /\ UNCHANGED <<dirs, files, events>>
  /\ RaceFixed

\* install, lines 147-154: fs::metadata(&installation_dir)
P_Metadata(p) ==
  /\ proc[p].pc = "metadata"
  /\ IF metadata_ok(dirs, files, proc[p].dir)
     THEN IF proc[p].dir \notin dirs
          THEN Finish(p, Err("Installation path is not a directory"), "bin_dir", None)
          ELSE Goto(p, "exists")
     ELSE Goto(p, "mkdir")
  /\ UNCHANGED <<dirs, files, events, overlapped>>
  /\ RaceFixed

\* install, line 155: fs::create_dir_all(&installation_dir)
P_CreateDirAll(p) ==
  /\ proc[p].pc = "mkdir"
  /\ LET m == create_dir_all(dirs, files, proc[p].dir)
     IN IF m.kind # "ok"
        THEN Finish(p, m, "bin_dir", None) /\ dirs' = dirs
        ELSE Goto(p, "exists") /\ dirs' = m.val
  /\ UNCHANGED <<files, events, overlapped>>
  /\ RaceFixed

\* install, lines 158-239: the target, file_path.exists(), the arguments
P_Exists(p) ==
  /\ proc[p].pc = "exists"
  /\ LET r == proc[p].req
         u == resolve_module_url(r.module_url)
         nm == IF r.name # None THEN r.name ELSE infer_name_from_url(u.val)
         file_path == shim_path(windows, proc[p].dir, nm[1])
         a == executable_args(r.flags, file_path, u.val, r.args)
     IN IF u.kind # "ok" THEN Finish(p, u, "url", None)
        ELSE IF nm = None
        THEN Finish(p, Err("An executable name was not provided. One could not be inferred from the URL. Aborting."),
                    "name", None)
        ELSE IF validate_name(nm[1]).kind # "ok"
        THEN Finish(p, validate_name(nm[1]), "validate", None)
        ELSE IF existing_installation(dirs, files, file_path, r.force)
        THEN Finish(p, Err("Existing installation found. Aborting (Use -f to overwrite)."),
                    "guard", Some(file_path))
        ELSE IF a.kind # "ok" THEN Finish(p, a, "log_level", Some(file_path))
        ELSE proc' = [proc EXCEPT ![p].pc = "create", ![p].file_path = file_path,
                                  ![p].args = a.val]
  /\ UNCHANGED <<dirs, files, events, overlapped>>
  /\ RaceFixed

\* generate_executable_file, line 73 (55 on Windows): File::create
P_Create(p) ==
  /\ proc[p].pc = "create"
  /\ IF proc[p].file_path \in dirs
     THEN /\ Finish(p, IoErr("Is a directory"), "shim", Some(proc[p].file_path))
          /\ UNCHANGED <<files, events>>
     ELSE /\ files' = file_create(files, proc[p].file_path)
          /\ events' = Append(events, <<p, "create">>)
          /\ Goto(p, "write")
  /\ UNCHANGED <<dirs, overlapped>>
  /\ RaceFixed

\* generate_executable_file, line 74 (56 on Windows): file.write_all
P_Write(p) ==
  /\ proc[p].pc = "write"
  /\ files' = write_all(files, proc[p].file_path, Template(windows, proc[p].args))
  /\ events' = Append(events, <<p, "write">>)
  /\ IF ~windows THEN Goto(p, "chmod")
     ELSE IF proc[p].req.flags.config_path # None THEN Goto(p, "copy")
     ELSE Finish(p, Ok(<<>>), "done", Some(proc[p].file_path))
  /\ UNCHANGED <<dirs, overlapped>>
  /\ RaceFixed

\* generate_executable_file, lines 75-78: fs::metadata, fs::set_permissions
P_SetPermissions(p) ==
  /\ proc[p].pc = "chmod"
  /\ files' = set_permissions(files, proc[p].file_path)
  /\ IF proc[p].req.flags.config_path # None THEN Goto(p, "copy")
     ELSE Finish(p, Ok(<<>>), "done", Some(proc[p].file_path))
  /\ UNCHANGED <<dirs, events, overlapped>>
  /\ RaceFixed

\* generate_config_file, line 89: fs::copy
P_Copy(p) ==
  /\ proc[p].pc = "copy"
  /\ LET c == generate_config_file(dirs, files, proc[p].file_path,
                                   proc[p].req.flags.config_path[1])
     IN IF c.kind # "ok"
        THEN Finish(p, c, "config", Some(proc[p].file_path)) /\ files' = files
        ELSE Finish(p, Ok(<<>>), "done", Some(proc[p].file_path)) /\ files' = c.val
  /\ UNCHANGED <<dirs, events, overlapped>>
  /\ RaceFixed

\* SpecRace: two invocations whose file system calls interleave freely
InitRace == InitWith(DefaultEnv, NoRequest, InitDirs, InitFiles)

NextRace ==
  \E p \in Procs :
    \/ P_Canonicalize(p)
    \/ P_Metadata(p)
    \/ P_CreateDirAll(p)
    \/ P_Exists(p)
    \/ P_Create(p)
    \/ P_Write(p)
    \/ P_SetPermissions(p)
    \/ P_Copy(p)

SpecRace == InitRace /\ [][NextRace]_vars

\* ------------------------------------------------------------------------
\* The latest invocation, in the terms the properties are stated in
\* ------------------------------------------------------------------------
Called == calls > 0

\* the non-empty pieces between the "/" of a path string
Segments(str) == DropEmpty(SplitOn(str, "/"))

IsPrefix(p, q) == Len(p) <= Len(q) /\ SubSeq(q, 1, Len(p)) = p

Last(S) == CHOOSE i \in S : \A j \in S : j <= i

ExistedBefore(p) == p \in pre.dirs \/ p \in DOMAIN pre.files

\* a regular file that the latest invocation created or changed
Touched(p) ==
  \/ p \in DOMAIN files /\ p \notin DOMAIN pre.files
  \/ p \in DOMAIN files /\ p \in DOMAIN pre.files /\ files[p] # pre.files[p]
  \/ p \notin DOMAIN files /\ p \in DOMAIN pre.files

NothingWritten == files = pre.files

\* the name the request asks for: the explicit one, else the one its URL gives
RequestedName(r) ==
  IF r.name # None THEN r.name
  ELSE IF resolve_module_url(r.module_url).kind = "ok"
  THEN infer_name_from_url(resolve_module_url(r.module_url).val)
  ELSE None

\* the root the request asks for, by the documented precedence
RequestedRoot(r) ==
  LET home == IF windows THEN env.USERPROFILE ELSE env.HOME
  IN IF r.root # None THEN r.root
     ELSE IF env.DENO_INSTALL_ROOT # None /\ env.DENO_INSTALL_ROOT # Some(<<>>)
     THEN Some(Segments(env.DENO_INSTALL_ROOT[1]))
     ELSE IF home # None THEN Some(Append(Segments(home[1]), <<".", "deno">>))
     ELSE None

RequestedBin(r) == Append(RequestedRoot(r)[1], <<"bin">>)

\* bin_dir/name, plus .cmd on Windows
RequestedShim(r) ==
  IF RequestedRoot(r) = None \/ RequestedName(r) = None THEN None
  ELSE Some(Append(RequestedBin(r),
                   IF windows THEN RequestedName(r)[1] \o <<".", "cmd">>
                   ELSE RequestedName(r)[1]))

\* bin_dir/name.tsconfig.json
RequestedSidecar(r) ==
  Append(RequestedBin(r), RequestedName(r)[1] \o <<".", "tsconfig", ".", "json">>)

\* the shim text a request renders into file p
Rendering(r, p) ==
  Template(windows,
           executable_args(r.flags, p, resolve_module_url(r.module_url).val,
                           r.args).val)

ExistingMsg == "Existing installation found. Aborting (Use -f to overwrite)."

\* ------------------------------------------------------------------------
\* C1
\* ------------------------------------------------------------------------
\* C1: an install without force whose target shim path already exists
\* returns the "Existing installation found" error and writes nothing,
\* whatever its source reference, flags and arguments are.
C1_ExistingShimRefused ==
  (/\ Called
   /\ ~req.force
   /\ RequestedShim(req) # None
   /\ ExistedBefore(RequestedShim(req)[1]))
  => (res.kind = "err" /\ res.msg = ExistingMsg /\ NothingWritten)

\* ------------------------------------------------------------------------
\* C2
\* ------------------------------------------------------------------------
Targets == {log[i].target[1] : i \in {j \in 1..Len(log) : log[j].target # None}}

\* the invocations aimed at shim p that returned Ok
Succeeded(p) ==
  {i \in 1..Len(log) : log[i].target = Some(p) /\ log[i].kind = "ok"}

\* the invocations aimed at shim p that returned Ok or returned the error of
\* the sidecar copy, which comes after the shim is written
WroteShim(p) ==
  {i \in 1..Len(log) :
     log[i].target = Some(p) /\ (log[i].kind = "ok" \/ log[i].at = "config")}

\* C2 as stated: after any sequence of installs the shim holds exactly the
\* rendering of the most recent install that succeeded.
C2_LatestSucceededRendering ==
  \A p \in Targets :
    Succeeded(p) # {}
    => (p \in DOMAIN files
        /\ files[p].content = Rendering(log[Last(Succeeded(p))].req, p))

\* C2 amended: after any sequence of installs the shim holds exactly the
\* rendering of the most recent install that either succeeded or failed only
\* in the sidecar copy, with nothing of an earlier request left in it; while
\* no such install happened the installs have created no shim.
C2_LatestWrittenRendering ==
  \A p \in Targets :
    IF WroteShim(p) # {}
    THEN p \in DOMAIN files
         /\ files[p].content = Rendering(log[Last(WroteShim(p))].req, p)
    ELSE p \notin DOMAIN files

\* a forced install has replaced a shim that rendered another request
C2_Witness ==
  /\ res.kind = "ok"
  /\ req.force
  /\ res.target # None
  /\ res.target[1] \in DOMAIN pre.files
  /\ pre.files[res.target[1]].content # files[res.target[1]].content
  /\ files[res.target[1]].content = Rendering(req, res.target[1])

\* ------------------------------------------------------------------------
\* C6
\* ------------------------------------------------------------------------
ConfigSource(r) ==
  IF PathBuf(r.flags.config_path[1]).abs
  THEN Segments(r.flags.config_path[1])
  ELSE CwdPath \o Segments(r.flags.config_path[1])

\* the latest invocation got as far as writing its shim
ShimWritten == res.at \in {"config", "done"}

\* C6: when the sidecar copy fails after the shim was written, install
\* returns the I/O error and the shim of that call stays with its full new
\* content: it is neither deleted nor put back to what a forced install
\* overwrote, and nothing else is written.
C6_CopyFailureKeepsShim ==
  (/\ Called
   /\ ShimWritten
   /\ req.flags.config_path # None
   /\ ConfigSource(req) \notin DOMAIN pre.files)
  => (/\ res.kind = "err"
      /\ res.io
      /\ res.target[1] \in DOMAIN files
      /\ files[res.target[1]].content = Rendering(req, res.target[1])
      /\ \A p \in DOMAIN files \cup DOMAIN pre.files :
           Touched(p) => p = res.target[1])

\* a forced install overwrote a shim and then failed to copy its config
C6_Witness ==
  /\ res.at = "config"
  /\ res.kind = "err"
  /\ req.force
  /\ res.target[1] \in DOMAIN pre.files
  /\ pre.files[res.target[1]].content # files[res.target[1]].content

\* ------------------------------------------------------------------------
\* C9
\* ------------------------------------------------------------------------
\* C9: for a source reference with an http(s):// prefix that does not parse
\* as an absolute URI, install returns an error value to its caller and
\* writes no shim.
C9_MalformedRemoteReturnsError ==
  (/\ Called
   /\ is_remote_url(req.module_url)
   /\ Url_parse(req.module_url).kind # "ok")
  => (res.kind = "err" /\ NothingWritten)

\* ------------------------------------------------------------------------
\* C3
\* ------------------------------------------------------------------------
Opt(cond, tokens) == IF cond THEN tokens ELSE <<>>

LevelOf(r) == IF r.flags.log_level = None THEN "none" ELSE r.flags.log_level[1]

\* the argument sequence as the claim lists it
ListedArgs(r) ==
  <<<<"run">>>>
  \o Opt(r.flags.allow_read, <<<<"--allow-read">>>>)
  \o Opt(r.flags.allow_net, <<<<"--allow-net">>>>)
  \o Opt(r.flags.ca_file # None, <<<<"--cert">>>> \o r.flags.ca_file)
  \o Opt(LevelOf(r) = "Error", <<<<"--quiet">>>>)
  \o Opt(LevelOf(r) = "Debug", <<<<"--log-level">>, <<"debug">>>>)
  \o Opt(LevelOf(r) = "Info", <<<<"--log-level">>, <<"info">>>>)
  \o Opt(r.flags.no_check, <<<<"--no-check">>>>)
  \o Opt(r.flags.unstable, <<<<"--unstable">>>>)
  \o Opt(r.flags.config_path # None,
         <<<<"--config">>, PathToStr(RequestedSidecar(r))>>)
  \o <<Url_to_string(resolve_module_url(r.module_url).val)>>
  \o r.args

\* C3: the arguments written into the shim are, in this order and with no
\* other token: run, --allow-read, --allow-net, --cert and its value, the
\* log level token(s), --no-check, --unstable, --config and the sidecar
\* path, the resolved target reference, then the trailing arguments.
C3_ArgumentOrder ==
  (Called /\ ShimWritten)
  => (/\ res.target = RequestedShim(req)
      /\ files[res.target[1]].content = Template(windows, ListedArgs(req)))

\* a shim was written for a request with every option set
C3_Witness ==
  /\ res.kind = "ok"
  /\ req.flags.allow_read /\ req.flags.allow_net
  /\ req.flags.ca_file # None
  /\ req.flags.log_level = Some("Debug")
  /\ req.flags.no_check /\ req.flags.unstable
  /\ req.flags.config_path # None
  /\ Len(req.args) = 2
  /\ files[res.target[1]].content = Template(windows, ListedArgs(req))

\* ------------------------------------------------------------------------
\* C4
\* ------------------------------------------------------------------------
Contains(text, part) ==
  \E i \in 1..(Len(text) - Len(part) + 1) :
    SubSeq(text, i, i + Len(part) - 1) = part

Has(text, lexeme) == \E i \in 1..Len(text) : text[i] = lexeme

InQuotes(token) == <<"\"", token, "\"">>

\* the overwrite guard stops the latest invocation
Refused ==
  /\ ~req.force
  /\ RequestedShim(req) # None
  /\ ExistedBefore(RequestedShim(req)[1])

ShimText == files[res.target[1]].content

C5_SidecarCopy ==
  /\ (Called /\ res.kind = "ok" /\ req.flags.config_path # None)
     => (/\ RequestedSidecar(req) \in DOMAIN files
         /\ files[RequestedSidecar(req)].content
              = pre.files[ConfigSource(req)].content
         /\ files[ConfigSource(req)] = pre.files[ConfigSource(req)])
  /\ (Called /\ req.flags.config_path = None)
     => \A p \in DOMAIN files \ DOMAIN pre.files : Some(p) = RequestedShim(req)

\* a relative config path was copied next to a .cmd shim
C5_Witness ==
  /\ res.kind = "ok"
  /\ windows
  /\ req.flags.config_path = Some(RelConfig)
  /\ RequestedSidecar(req) \in DOMAIN files
  /\ files[RequestedSidecar(req)].content = <<"{", "}">>

\* ------------------------------------------------------------------------
\* C7
\* ------------------------------------------------------------------------
NotADirMsg == "Installation path is not a directory"

\* C7: with the root resolved, a missing bin_dir is created with all its
\* missing parents and the installation goes on; a bin_dir that is not a
\* directory makes install fail with "Installation path is not a directory"
\* creating no directory and writing nothing; a bin_dir that is a directory
\* is left as it is.
C7_BinDir ==
  (Called /\ res.at # "root")
  => LET bin == RequestedBin(req)
     IN /\ bin \in DOMAIN pre.files
           => (/\ res.kind = "err" /\ res.msg = NotADirMsg
               /\ dirs = pre.dirs /\ NothingWritten)
        /\ bin \in pre.dirs => (dirs = pre.dirs /\ res.at # "bin_dir")
        /\ ~ExistedBefore(bin)
           => (/\ dirs = pre.dirs \cup Prefixes(bin)
               /\ res.at # "bin_dir")

\* install found a regular file where bin_dir should be
C7_Witness ==
  /\ Called
  /\ res.at = "bin_dir"
  /\ RequestedBin(req) \in DOMAIN pre.files
  /\ res.msg = NotADirMsg

\* ------------------------------------------------------------------------
\* C8
\* ------------------------------------------------------------------------
HomeVar == IF windows THEN env.USERPROFILE ELSE env.HOME

EnvRootSet == env.DENO_INSTALL_ROOT # None /\ env.DENO_INSTALL_ROOT # Some(<<>>)

\* C8: the root is the explicit override if given, else a non-empty
\* DENO_INSTALL_ROOT, else the home directory joined with .deno; an empty
\* DENO_INSTALL_ROOT counts as unset; the environment does not matter when
\* an override is given; a missing home variable is an error when the
\* default is needed.
C8_RootPrecedence ==
  Called =>
    /\ (req.root = None /\ ~EnvRootSet /\ HomeVar = None)
       => (/\ res.kind = "err"
           /\ res.msg = (IF windows THEN "$USERPROFILE is not defined"
                         ELSE "$HOME is not defined")
           /\ dirs = pre.dirs /\ NothingWritten)
    /\ (req.root # None /\ ExistedBefore(req.root[1])) => res.at # "root"
    /\ (req.root = None /\ EnvRootSet
        /\ ExistedBefore(Segments(env.DENO_INSTALL_ROOT[1]))) => res.at # "root"
    /\ (req.root = None /\ ~EnvRootSet /\ HomeVar # None) => res.at # "root"
    /\ RequestedRoot(req) # None
       => (/\ \A d \in dirs \ pre.dirs : d \in Prefixes(RequestedBin(req))
           /\ \A p \in DOMAIN files \cup DOMAIN pre.files :
                Touched(p) => IsPrefix(RequestedBin(req), p)
           /\ res.kind = "ok"
              => (/\ res.target = RequestedShim(req)
                  /\ res.target[1] \in DOMAIN files))

\* with DENO_INSTALL_ROOT set to the empty string and no override the shim
\* went under the home directory
C8_Witness ==
  /\ res.kind = "ok"
  /\ req.root = None
  /\ env.DENO_INSTALL_ROOT = Some(<<>>)
  /\ HomeVar # None
  /\ IsPrefix(Append(Segments(HomeVar[1]), <<".", "deno">>), res.target[1])
  /\ res.target[1] \in DOMAIN files

\* ------------------------------------------------------------------------
\* C10
\* ------------------------------------------------------------------------
GenericStems == {<<"main">>, <<"mod">>, <<"index">>, <<"cli">>}

\* the path of the resolved URI of request r, as its non-empty segments
UriSegments(r) == Segments(resolve_module_url(r.module_url).val.path)

\* the name the claim derives from these segments
ListedName(segs) ==
  IF segs = <<>> THEN None
  ELSE LET stem == StemOf(segs[Len(segs)])
       IN IF stem \in GenericStems /\ Len(segs) >= 2
          THEN Some(segs[Len(segs) - 1])
          ELSE Some(stem)

NoNameMsg ==
  "An executable name was not provided. One could not be inferred from the URL. Aborting."

\* C10: name derivation gives nothing for an empty or root path, the parent
\* segment for a stem main, mod, index or cli (exactly so spelled) that has
\* a parent segment, and the stem otherwise; install uses it only when no
\* name was given and fails asking for a name when there is neither.
C10_NameDerivation ==
  /\ derived # None => derived[1] = ListedName(UriSegments(req))
  /\ (Called /\ req.name # None)
     => (res.at # "name" /\ res.target = RequestedShim(req)
         /\ Append(RequestedBin(req), IF windows THEN req.name[1] \o <<".", "cmd">>
                                      ELSE req.name[1]) = res.target[1])
  /\ (Called /\ req.name = None /\ derived[1] = None)
     => (res.kind = "err" /\ res.msg = NoNameMsg /\ NothingWritten)
  /\ (Called /\ req.name = None /\ derived[1] # None /\ res.target # None)
     => res.target[1]
          = Append(RequestedBin(req), IF windows THEN derived[1][1] \o <<".", "cmd">>
                                      ELSE derived[1][1])

\* /abc/main.ts gave abc and the shim was installed under that name
C10_Witness ==
  /\ Called
  /\ req.name = None
  /\ req.module_url = <<"http", "://", "localhost", "/", "abc", "/", "main", ".", "ts">>
  /\ derived = Some(Some(<<"abc">>))
  /\ res.kind = "ok"
  /\ (IF windows THEN <<"abc", ".", "cmd">> ELSE <<"abc">>)
       = res.target[1][Len(res.target[1])]

\* ------------------------------------------------------------------------
\* C11
\* ------------------------------------------------------------------------
AllDone == \A p \in Procs : proc[p].pc = "done"

OkProcs == {p \in Procs : proc[p].ret.kind = "ok"}

\* the place of the call `what` of invocation p among the recorded calls
EventAt(p, what) == CHOOSE i \in 1..Len(events) : events[i] = <<p, what>>

\* the invocation whose write_all came last
LastWriter ==
  events[Last({i \in 1..Len(events) : events[i][2] = "write"})][1]

RaceShim(p) == RequestedShim(proc[p].req)[1]

RaceRendering(p) == Rendering(proc[p].req, RaceShim(p))

\* C11: the overwrite guard protects only installs that follow one another.
\* Two unforced installs of one name into one root that starts without the
\* shim: run one after the other, exactly one succeeds, the other gets
\* "Existing installation found" and the shim is the first one's; they can
\* both succeed only when their calls interleave, and then the shim begins
\* with the text of the one that wrote last and is exactly that text unless
\* the other wrote between the last writer's File::create and write_all, in
\* which case the end of the other's longer text is left behind it.
C11_GuardOnlySequential ==
  AllDone =>
    /\ ~overlapped
       => (/\ Cardinality(OkProcs) = 1
           /\ \A p \in OkProcs :
                /\ RaceShim(p) \in DOMAIN files
                /\ files[RaceShim(p)].content = RaceRendering(p)
           /\ \A p \in Procs \ OkProcs :
                proc[p].ret.kind = "err" /\ proc[p].ret.msg = ExistingMsg)
    /\ OkProcs = Procs
       => (/\ overlapped
           /\ \A p \in Procs : RaceShim(p) = RaceShim(LastWriter)
           /\ LET w == LastWriter
                  o == CHOOSE q \in Procs : q # w
                  text == files[RaceShim(w)].content
              IN IF EventAt(w, "create") < EventAt(o, "write")
                 THEN text = RaceRendering(w)
                             \o SubSeq(RaceRendering(o), Len(RaceRendering(w)) + 1,
                                       Len(RaceRendering(o)))
                 ELSE text = RaceRendering(w))

\* both installs passed the existence check and returned Ok, and the shim
\* is the one of the install that wrote last, not the other one's
C11_Witness ==
  /\ AllDone
  /\ OkProcs = Procs
  /\ \A p \in Procs : proc[p].ret.at = "done"
  /\ RaceRendering("a") # RaceRendering("b")
  /\ files[RaceShim(LastWriter)].content = RaceRendering(LastWriter)

====
